---------------------------- MODULE Spec2Model ----------------------------
(***************************************************************************)
(* Tax Master: the jurisdiction rule of tax_rules.py and the batch         *)
(* pipeline of main.py (load_sales_data, process_sales, generate_report).  *)
(*                                                                         *)
(* Money.  A Python float holding an amount is modelled by the decimal it  *)
(* stands for, counted in units of 1/10000 (2500.0 is 25000000).  round(x, *)
(* 2) is rounding to a multiple of 100 units, ties to the even cent, which *)
(* is what Python's correctly rounded round() does on the decimals used    *)
(* here.  The literals of FloatLiterals and IntLiterals are chosen so that *)
(* src/tax_rules.py, executed on them, returns exactly these decimals: no  *)
(* product or sum of them lies within a binary rounding error of a tie     *)
(* without being resolved the same way.                                    *)
(*                                                                         *)
(* Sums of amounts are sums of these decimals, as the report prints them.  *)
(*                                                                         *)
(* Dictionaries are functions from keys to values; a CSV field is a string *)
(* or None (csv.DictReader's restval for a short row).                     *)
(***************************************************************************)
EXTENDS Integers, Sequences, FiniteSets, TLC

\* Longest input file of main.py, in rows.
MaxRows == 3

None == "<None>"
Absent == "<absent>"

\* dict.get(key, default)
Get(d, key, default) == IF key \in DOMAIN d THEN d[key] ELSE default

\* d[key] = value on a dict
Store(d, key, value) == [k \in DOMAIN d \cup {key} |-> IF k = key THEN value ELSE d[k]]

(***************************************************************************)
(* Python built-ins, on the literals of the model.                         *)
(***************************************************************************)
FloatLiterals ==
    "0" :> 0 @@ "40" :> 400000 @@ "100" :> 1000000 @@ "250.5" :> 2505000 @@
    "500" :> 5000000 @@ "1000" :> 10000000 @@ "2000" :> 20000000 @@
    "2000.5" :> 20005000 @@ "2002.875" :> 20028750 @@ "2500" :> 25000000 @@
    "-5" :> -50000

IntLiterals == "0" :> 0 @@ "1" :> 1 @@ "2" :> 2 @@ "3" :> 3 @@ "-1" :> -1

UpperTable ==
    "INDIA" :> "INDIA" @@ "india" :> "INDIA" @@ "India" :> "INDIA" @@
    "USA" :> "USA" @@ "usa" :> "USA" @@ "" :> ""

\* float(x): TypeError on None, ValueError on a string that is no number.
float(x) ==
    IF x = None THEN [exc |-> "TypeError", v |-> 0]
    ELSE IF x \in DOMAIN FloatLiterals THEN [exc |-> "", v |-> FloatLiterals[x]]
    ELSE [exc |-> "ValueError", v |-> 0]

\* int(x): TypeError on None, ValueError on a string that is no integer
\* ("2.5", "abc", "").
int(x) ==
    IF x = None THEN [exc |-> "TypeError", v |-> 0]
    ELSE IF x \in DOMAIN IntLiterals THEN [exc |-> "", v |-> IntLiterals[x]]
    ELSE [exc |-> "ValueError", v |-> 0]

\* str.upper()
upper(s) == UpperTable[s]

\* round(x, 2): to the nearest cent, a tie to the even cent.
Round2(x) ==
    LET q == x \div 100
        r == x % 100
    IN  IF r < 50 THEN q * 100
        ELSE IF r > 50 THEN (q + 1) * 100
        ELSE IF q % 2 = 0 THEN q * 100 ELSE (q + 1) * 100

\* x * rate for a rate written in percent (0.10 is 10).
TimesRate(x, percent) == (x * percent) \div 100

(***************************************************************************)
(* tax_rules.py                                                            *)
(***************************************************************************)
INDIA_TAX_RATE == 10
INDIA_TAX_THRESHOLD == 2000 * 10000

\* calculate_tax_amount without the .upper(): a variant the properties must
\* tell from the code.
calculate_tax_amount_nocase(item_rate, item_quantity, country_code) ==
    LET item_amount == item_rate * item_quantity
        tax_amount ==
            IF country_code = "INDIA"
            THEN IF item_rate > INDIA_TAX_THRESHOLD
                 THEN TimesRate(item_amount, INDIA_TAX_RATE)
                 ELSE 0
            ELSE 0
    IN  Round2(tax_amount)

calculate_tax_amount(item_rate, item_quantity, country_code) ==
    LET item_amount == item_rate * item_quantity
        tax_amount ==
            IF upper(country_code) = "INDIA"
            THEN IF item_rate > INDIA_TAX_THRESHOLD
                 THEN TimesRate(item_amount, INDIA_TAX_RATE)
                 ELSE 0
            ELSE 0
    IN  Round2(tax_amount)

calculate_total_amount(item_rate, item_quantity, tax_amount) ==
    LET item_amount == item_rate * item_quantity
        total_amount == item_amount + tax_amount
    IN  Round2(total_amount)

\* get_tax_status with >= for >: a variant.
get_tax_status_inclusive(item_rate, country_code) ==
    IF upper(country_code) = "INDIA"
    THEN IF item_rate >= INDIA_TAX_THRESHOLD THEN "Taxable" ELSE "Tax-Exempt"
    ELSE "Tax-Exempt"

get_tax_status(item_rate, country_code) ==
    IF upper(country_code) = "INDIA"
    THEN IF item_rate > INDIA_TAX_THRESHOLD THEN "Taxable" ELSE "Tax-Exempt"
    ELSE "Tax-Exempt"

\* The outcome of a call: the dict as the call leaves it, and "record" (the
\* dict is returned), "None" (KeyError or ValueError, caught and printed) or
\* the name of the exception that leaves the function.
Outcome(record, ret) == [record |-> record, ret |-> ret]

\* update_sales_record_with_tax storing 'Item Amount' before it reads the
\* country code: a variant.
update_sales_record_with_tax_eager(record) ==
    IF "Item Rate" \notin DOMAIN record THEN Outcome(record, "None")
    ELSE LET item_rate == float(record["Item Rate"]) IN
    IF item_rate.exc = "TypeError" THEN Outcome(record, "TypeError")
    ELSE IF item_rate.exc = "ValueError" THEN Outcome(record, "None")
    ELSE IF "Item Quantity" \notin DOMAIN record THEN Outcome(record, "None")
    ELSE LET item_quantity == int(record["Item Quantity"]) IN
    IF item_quantity.exc = "TypeError" THEN Outcome(record, "TypeError")
    ELSE IF item_quantity.exc = "ValueError" THEN Outcome(record, "None")
    ELSE LET item_amount == Round2(item_rate.v * item_quantity.v)
             partial == Store(record, "Item Amount", item_amount) IN
    IF "Country Code" \notin DOMAIN record THEN Outcome(partial, "None")
    ELSE LET country_code == record["Country Code"] IN
    IF country_code = None THEN Outcome(partial, "AttributeError")
    ELSE LET tax_amount == calculate_tax_amount(item_rate.v, item_quantity.v, country_code)
             total_amount == calculate_total_amount(item_rate.v, item_quantity.v, tax_amount)
         IN  Outcome(Store(Store(partial, "Tax Amount", tax_amount),
                           "Total Amount", total_amount), "record")

update_sales_record_with_tax(record) ==
    \* record['Item Rate']: KeyError
    IF "Item Rate" \notin DOMAIN record THEN Outcome(record, "None")
    ELSE LET item_rate == float(record["Item Rate"]) IN
    IF item_rate.exc = "TypeError" THEN Outcome(record, "TypeError")
    ELSE IF item_rate.exc = "ValueError" THEN Outcome(record, "None")
    ELSE IF "Item Quantity" \notin DOMAIN record THEN Outcome(record, "None")
    ELSE LET item_quantity == int(record["Item Quantity"]) IN
    IF item_quantity.exc = "TypeError" THEN Outcome(record, "TypeError")
    ELSE IF item_quantity.exc = "ValueError" THEN Outcome(record, "None")
    ELSE IF "Country Code" \notin DOMAIN record THEN Outcome(record, "None")
    ELSE LET country_code == record["Country Code"] IN
    \* None.upper() in calculate_tax_amount: AttributeError, not caught
    IF country_code = None THEN Outcome(record, "AttributeError")
    ELSE LET item_amount == Round2(item_rate.v * item_quantity.v)
             tax_amount == calculate_tax_amount(item_rate.v, item_quantity.v, country_code)
             total_amount == calculate_total_amount(item_rate.v, item_quantity.v, tax_amount)
         IN  Outcome(Store(Store(Store(record, "Item Amount", item_amount),
                                 "Tax Amount", tax_amount),
                           "Total Amount", total_amount), "record")


(***************************************************************************)
(* main.py.  TaxCalculator and TAX_RATES are imported from tax_rules but   *)
(* tax_rules.py does not define them: the table is a configuration chosen  *)
(* at start, and calculate_tax is the flat category lookup with a default. *)
(***************************************************************************)
VARIABLES
    prog,               \* which module runs: "tax_rules" or "main"
    file,               \* the input source: "ok", "missing" or "unreadable"
    file_rows,          \* the rows csv.DictReader yields from the source
    TAX_RATES,          \* category -> percent
    pc,                 \* position of the run
    sales_data,         \* what load_sales_data returned (dicts, updated in place)
    idx,                \* 1-based position of process_sales' loop
    processed_records,
    total_sales,
    total_tax,
    diagnostics,        \* rows (positions) reported by an except clause
    warnings,           \* number of "Warning:"/"Error loading" lines printed
    report,             \* what generate_report computed and printed
    exit_code,          \* 0 while running or ended normally, 1 after sys.exit(1)
                        \* or an uncaught exception
    exc,                \* the uncaught exception that ended the run, or ""
    result,             \* what update_sales_record_with_tax returned
    tax_status          \* what get_tax_status returned

vars == << prog, file, file_rows, TAX_RATES, pc, sales_data, idx,
           processed_records, total_sales, total_tax, diagnostics, warnings,
           report, exit_code, exc, result, tax_status >>

\* The configured default percentage of the category lookup.
DEFAULT_RATE == 10

\* TaxCalculator's rate for a category: its entry, else the default.
category_rate(category) ==
    IF category \in DOMAIN TAX_RATES THEN TAX_RATES[category]
    ELSE Get(TAX_RATES, "standard", DEFAULT_RATE)

\* TaxCalculator.calculate_tax(amount, category)
calculate_tax(amount, category) == Round2(TimesRate(amount, category_rate(category)))

\* One iteration of process_sales' loop on `record`, from the accumulators
\* given: the accumulators after it and how it ended ("ok", "skipped" by the
\* except clause, or the exception that leaves the loop).
Iteration(records, sales, tax, how) ==
    [processed_records |-> records, total_sales |-> sales, total_tax |-> tax, how |-> how]

\* The loop body adding total_amount, not amount, to total_sales: a variant.
process_record_gross(record, records, sales, tax) ==
    LET transaction_id == Get(record, "transaction_id", "N/A")
        amount == float(Get(record, "amount", "0"))
    IN  IF amount.exc = "TypeError" THEN Iteration(records, sales, tax, "TypeError")
        ELSE IF amount.exc = "ValueError" THEN Iteration(records, sales, tax, "skipped")
        ELSE LET category == Get(record, "category", "standard")
                 tax_amount == calculate_tax(amount.v, category)
                 total_amount == amount.v + tax_amount
             IN  IF "standard" \notin DOMAIN TAX_RATES
                 THEN Iteration(records, sales, tax, "skipped")
                 ELSE LET processed_record ==
                              [transaction_id |-> transaction_id,
                               amount |-> amount.v,
                               category |-> category,
                               tax_rate |-> Get(TAX_RATES, category, TAX_RATES["standard"]),
                               tax_amount |-> tax_amount,
                               total_amount |-> total_amount]
                      IN  Iteration(Append(records, processed_record),
                                    sales + total_amount, tax + tax_amount, "ok")

process_record(record, records, sales, tax) ==
    LET transaction_id == Get(record, "transaction_id", "N/A")
        \* float(record.get('amount', 0)): float(0) is float("0")
        amount == float(Get(record, "amount", "0"))
    IN  IF amount.exc = "TypeError" THEN Iteration(records, sales, tax, "TypeError")
        ELSE IF amount.exc = "ValueError" THEN Iteration(records, sales, tax, "skipped")
        ELSE LET category == Get(record, "category", "standard")
                 tax_amount == calculate_tax(amount.v, category)
                 total_amount == amount.v + tax_amount
             IN  \* TAX_RATES['standard'] is evaluated as get's argument:
                 \* KeyError when the table has no such entry, caught below
                 IF "standard" \notin DOMAIN TAX_RATES
                 THEN Iteration(records, sales, tax, "skipped")
                 ELSE LET processed_record ==
                              [transaction_id |-> transaction_id,
                               amount |-> amount.v,
                               category |-> category,
                               tax_rate |-> Get(TAX_RATES, category, TAX_RATES["standard"]),
                               tax_amount |-> tax_amount,
                               total_amount |-> total_amount]
                      IN  Iteration(Append(records, processed_record),
                                    sales + amount.v, tax + tax_amount, "ok")

NoBucket == [count |-> 0, sales |-> 0, tax |-> 0]
EmptyDict == [k \in {} |-> NoBucket]

\* generate_report's category loop starting a bucket anew at every record:
\* a variant.
RECURSIVE categories_reset(_)
categories_reset(records) ==
    IF Len(records) = 0 THEN EmptyDict
    ELSE LET prev == categories_reset(SubSeq(records, 1, Len(records) - 1))
             record == records[Len(records)]
             cat == record.category
         IN  Store(prev, cat, [count |-> 1, sales |-> record.amount,
                               tax |-> record.tax_amount])

\* generate_report's category loop: the buckets after `records`
RECURSIVE categories_of(_)
categories_of(records) ==
    IF Len(records) = 0 THEN EmptyDict
    ELSE LET prev == categories_of(SubSeq(records, 1, Len(records) - 1))
             record == records[Len(records)]
             cat == record.category
             bucket == IF cat \in DOMAIN prev THEN prev[cat] ELSE NoBucket
         IN  Store(prev, cat, [count |-> bucket.count + 1,
                               sales |-> bucket.sales + record.amount,
                               tax |-> bucket.tax + record.tax_amount])


\* generate_report: the figures printed, the buckets built, and the
\* exception that ends it when a bucket's key is None (sorted() of None and
\* str keys: TypeError; None.upper(): AttributeError), raised after the
\* totals were printed and before any bucket is.
generate_report(records, sales, tax) ==
    LET total_revenue == sales + tax
        categories == categories_of(records)
        raised == IF None \notin DOMAIN categories THEN ""
                  ELSE IF Cardinality(DOMAIN categories) > 1 THEN "TypeError"
                  ELSE "AttributeError"
    IN  [printed |-> TRUE,
         transactions |-> Len(records),
         total_sales |-> sales,
         total_tax |-> tax,
         total_revenue |-> total_revenue,
         categories |-> categories,
         rates |-> IF raised = "" THEN [c \in DOMAIN categories |-> Get(TAX_RATES, c, 0)]
                   ELSE [c \in {} |-> 0],
         raised |-> raised]

NoReport ==
    [printed |-> FALSE, transactions |-> 0, total_sales |-> 0, total_tax |-> 0,
     total_revenue |-> 0, categories |-> EmptyDict, rates |-> [c \in {} |-> 0],
     raised |-> ""]

(***************************************************************************)
(* Inputs.                                                                 *)
(***************************************************************************)
\* A row of the tax_rules pipeline; Absent leaves the column out.
Row(rate, quantity, country) ==
    LET keys == {"Item Name"}
                \cup (IF rate = Absent THEN {} ELSE {"Item Rate"})
                \cup (IF quantity = Absent THEN {} ELSE {"Item Quantity"})
                \cup (IF country = Absent THEN {} ELSE {"Country Code"})
    IN  [k \in keys |-> CASE k = "Item Name" -> "Widget"
                          [] k = "Item Rate" -> rate
                          [] k = "Item Quantity" -> quantity
                          [] k = "Country Code" -> country]

RateFields == {Absent, None, "abc", "-5", "500", "1000", "2000", "2000.5", "2002.875", "2500"}
QuantityFields == {Absent, None, "2.5", "0", "1", "2", "3"}
CountryFields == {Absent, None, "", "INDIA", "india", "India", "USA"}

TaxRows == {Row(r, q, c) : r \in RateFields, q \in QuantityFields, c \in CountryFields}

\* Rows of the main.py pipeline.
SalesRows ==
    { "transaction_id" :> "T1" @@ "amount" :> "100" @@ "category" :> "standard",
      "transaction_id" :> "T2" @@ "amount" :> "250.5" @@ "category" :> "food",
      "transaction_id" :> "T3" @@ "amount" :> "100" @@ "category" :> "misc",
      "amount" :> "250.5",
      "transaction_id" :> "T5" @@ "amount" :> "abc" @@ "category" :> "food",
      "transaction_id" :> "T6" @@ "category" :> "food",
      "transaction_id" :> "T7" @@ "amount" :> None @@ "category" :> None,
      "transaction_id" :> "T8" @@ "amount" :> "40" @@ "category" :> None }

RateTables ==
    { "standard" :> 10 @@ "food" :> 20,
      "food" :> 20 @@ "luxury" :> 30 }

Batches == UNION {[1..n -> SalesRows] : n \in 0..MaxRows}

Init ==
    /\ prog \in {"tax_rules", "main"}
    /\ file \in {"ok", "missing", "unreadable"}
    /\ file_rows \in IF file # "ok" THEN {<<>>}
                     ELSE IF prog = "tax_rules" THEN {<<r>> : r \in TaxRows}
                     ELSE Batches
    /\ TAX_RATES \in IF prog = "main" /\ file = "ok" THEN RateTables
                     ELSE {"standard" :> 10 @@ "food" :> 20}
    /\ pc = "start"
    /\ sales_data = <<>>
    /\ idx = 1
    /\ processed_records = <<>>
    /\ total_sales = 0
    /\ total_tax = 0
    /\ diagnostics = <<>>
    /\ warnings = 0
    /\ report = NoReport
    /\ exit_code = 0
    /\ exc = ""
    /\ result = ""
    /\ tax_status = ""

(***************************************************************************)
(* tax_rules.py as the program                                             *)
(***************************************************************************)
\* tax_rules.load_sales_data: a missing file is a warning and an empty list;
\* an error while reading is printed and what was read is returned.
TaxRulesLoadSalesData ==
    /\ prog = "tax_rules"
    /\ pc = "start"
    /\ sales_data' = IF file = "ok" THEN file_rows ELSE <<>>
    /\ warnings' = IF file = "ok" THEN warnings ELSE warnings + 1
    /\ pc' = "loaded"
    /\ UNCHANGED << prog, file, file_rows, TAX_RATES, idx, processed_records,
                    total_sales, total_tax, diagnostics, report, exit_code,
                    exc, result, tax_status >>

\* update_sales_record_with_tax on the loaded row, in place.
UpdateSalesRecordWithTax ==
    /\ prog = "tax_rules"
    /\ pc = "loaded"
    /\ idx <= Len(sales_data)
    /\ LET out == update_sales_record_with_tax(sales_data[idx])
       IN  /\ sales_data' = [sales_data EXCEPT ![idx] = out.record]
           /\ result' = out.ret
           /\ diagnostics' = IF out.ret = "None" THEN Append(diagnostics, idx)
                             ELSE diagnostics
           /\ exc' = IF out.ret \in {"TypeError", "AttributeError"} THEN out.ret ELSE ""
           /\ exit_code' = IF out.ret \in {"TypeError", "AttributeError"} THEN 1 ELSE 0
           /\ pc' = IF out.ret \in {"TypeError", "AttributeError"} THEN "crashed"
                    ELSE "updated"
    /\ UNCHANGED << prog, file, file_rows, TAX_RATES, idx, processed_records,
                    total_sales, total_tax, warnings, report, tax_status >>

\* get_tax_status on the rate and country of an updated row.
GetTaxStatus ==
    /\ prog = "tax_rules"
    /\ pc = "updated"
    /\ result = "record"
    /\ tax_status' = get_tax_status(float(sales_data[idx]["Item Rate"]).v,
                                    sales_data[idx]["Country Code"])
    /\ pc' = "status"
    /\ UNCHANGED << prog, file, file_rows, TAX_RATES, sales_data, idx,
                    processed_records, total_sales, total_tax, diagnostics,
                    warnings, report, exit_code, exc, result >>

(***************************************************************************)
(* main.py as the program                                                  *)
(***************************************************************************)
\* main.load_sales_data returning an empty list for a file it cannot read,
\* as tax_rules' loader does: a variant.
MainLoadSalesDataLenient ==
    /\ prog = "main"
    /\ pc = "start"
    /\ sales_data' = IF file = "ok" THEN file_rows ELSE <<>>
    /\ warnings' = IF file = "ok" THEN warnings ELSE warnings + 1
    /\ pc' = "loaded"
    /\ UNCHANGED << prog, file, file_rows, TAX_RATES, idx, processed_records,
                    total_sales, total_tax, diagnostics, report, exit_code,
                    exc, result, tax_status >>

\* main.load_sales_data: FileNotFoundError and any other exception end the
\* run with sys.exit(1).
MainLoadSalesData ==
    /\ prog = "main"
    /\ pc = "start"
    /\ IF file = "ok"
       THEN /\ sales_data' = file_rows
            /\ pc' = "loaded"
            /\ UNCHANGED << warnings, exit_code >>
       ELSE /\ sales_data' = <<>>
            /\ warnings' = warnings + 1
            /\ exit_code' = 1
            /\ pc' = "exited"
    /\ UNCHANGED << prog, file, file_rows, TAX_RATES, idx, processed_records,
                    total_sales, total_tax, diagnostics, report, exc, result,
                    tax_status >>

\* main: "No sales data to process." and return.
MainNoData ==
    /\ prog = "main"
    /\ pc = "loaded"
    /\ Len(sales_data) = 0
    /\ pc' = "done"
    /\ UNCHANGED << prog, file, file_rows, TAX_RATES, sales_data, idx,
                    processed_records, total_sales, total_tax, diagnostics,
                    warnings, report, exit_code, exc, result, tax_status >>

\* One iteration of process_sales' loop.
ProcessSales ==
    /\ prog = "main"
    /\ pc = "loaded"
    /\ Len(sales_data) > 0
    /\ idx <= Len(sales_data)
    /\ LET it == process_record(sales_data[idx], processed_records, total_sales, total_tax)
       IN  /\ processed_records' = it.processed_records
           /\ total_sales' = it.total_sales
           /\ total_tax' = it.total_tax
           /\ diagnostics' = IF it.how = "skipped" THEN Append(diagnostics, idx)
                             ELSE diagnostics
           /\ IF it.how = "TypeError"
              THEN /\ pc' = "crashed"
                   /\ exc' = "TypeError"
                   /\ exit_code' = 1
                   /\ idx' = idx
              ELSE /\ pc' = pc
                   /\ exc' = exc
                   /\ exit_code' = exit_code
                   /\ idx' = idx + 1
    /\ UNCHANGED << prog, file, file_rows, TAX_RATES, sales_data, warnings,
                    report, result, tax_status >>

\* process_sales returns and main calls generate_report.
GenerateReport ==
    /\ prog = "main"
    /\ pc = "loaded"
    /\ Len(sales_data) > 0
    /\ idx > Len(sales_data)
    /\ report' = generate_report(processed_records, total_sales, total_tax)
    /\ pc' = IF report'.raised = "" THEN "done" ELSE "crashed"
    /\ exc' = report'.raised
    /\ exit_code' = IF report'.raised = "" THEN 0 ELSE 1
    /\ UNCHANGED << prog, file, file_rows, TAX_RATES, sales_data, idx,
                    processed_records, total_sales, total_tax, diagnostics,
                    warnings, result, tax_status >>

Next ==
    \/ TaxRulesLoadSalesData
    \/ UpdateSalesRecordWithTax
    \/ GetTaxStatus
    \/ MainLoadSalesData
    \/ MainNoData
    \/ ProcessSales
    \/ GenerateReport

Spec == Init /\ [][Next]_vars

(***************************************************************************)
(* Properties                                                              *)
(***************************************************************************)
RECURSIVE Sum(_, _)
\* The sum of f over the set S of its arguments.
Sum(f, S) ==
    IF S = {} THEN 0
    ELSE LET x == CHOOSE y \in S : TRUE IN f[x] + Sum(f, S \ {x})

\* An amount in the model's units.
Money(units, cents) == units * 10000 + cents * 100

\* The spellings of INDIA among the inputs, by letter case.
IndiaSpellings == {"INDIA", "india", "India"}

\* The row update_sales_record_with_tax was given, and the row it left.
InputRow == file_rows[1]
OutputRow == sales_data[1]
Updated == prog = "tax_rules" /\ pc \in {"updated", "status", "crashed"}
InputRate == FloatLiterals[InputRow["Item Rate"]]
InputQuantity == IntLiterals[InputRow["Item Quantity"]]
DerivedKeys == {"Item Amount", "Tax Amount", "Total Amount"}

\* C1: for a rate above 2000, a quantity >= 0 and INDIA in any letter case,
\* the tax amount is round(rate * quantity * 0.10, 2).
C1_IndiaAboveThresholdTaxed ==
    (Updated /\ result = "record"
       /\ InputRow["Country Code"] \in IndiaSpellings
       /\ InputRate > Money(2000, 0)
       /\ InputQuantity >= 0)
    => OutputRow["Tax Amount"] = Round2((InputRate * InputQuantity * 10) \div 100)

C1_Witness ==
    /\ Updated /\ result = "record"
    /\ InputRow["Country Code"] = "india"
    /\ InputRow["Item Rate"] = "2002.875"
    /\ InputRow["Item Quantity"] = "3"
    /\ OutputRow["Tax Amount"] = Money(600, 86)

\* C2: unless the jurisdiction is INDIA (any letter case) and the rate is
\* above 2000, the tax amount is 0.00 and the status is 'Tax-Exempt', for
\* every quantity; a rate of exactly 2000 is exempt.
C2_OtherwiseExempt ==
    (Updated /\ result = "record"
       /\ ~(InputRow["Country Code"] \in IndiaSpellings /\ InputRate > Money(2000, 0)))
    => /\ OutputRow["Tax Amount"] = 0
       /\ pc = "status" => tax_status = "Tax-Exempt"

C2_Witness ==
    /\ prog = "tax_rules" /\ pc = "status"
    /\ InputRow["Country Code"] = "India"
    /\ InputRow["Item Rate"] = "2000"
    /\ InputRow["Item Quantity"] = "3"
    /\ tax_status = "Tax-Exempt"
    /\ OutputRow["Tax Amount"] = 0

\* C3: in every enriched record the stored 'Total Amount' is the stored
\* 'Item Amount' plus the stored 'Tax Amount'.
C3_TotalIsItemPlusTax ==
    (Updated /\ result = "record")
    => OutputRow["Total Amount"] = OutputRow["Item Amount"] + OutputRow["Tax Amount"]

\* A row of main.py's input that is well formed: its amount (0 when the
\* file has no such column) is a number.  A row that is not has an amount
\* that does not parse, or None: the field is missing from its line.
WellFormed(row) == Get(row, "amount", "0") \in DOMAIN FloatLiterals
Scanned == 1 .. (idx - 1)
WellFormedScanned == {i \in Scanned : WellFormed(sales_data[i])}

\* C4: a malformed row is reported and skipped, adds nothing to the
\* processed records or the totals and does not stop the loop; the
\* well-formed rows before and after it are processed, and the totals are
\* those of the processed rows.
C4_MalformedRowIsolated ==
    (prog = "main" /\ "standard" \in DOMAIN TAX_RATES)
    => /\ pc = "crashed" => idx > Len(sales_data)
       /\ Len(processed_records) = Cardinality(WellFormedScanned)
       /\ \A i \in Scanned : ~WellFormed(sales_data[i])
              => \E j \in DOMAIN diagnostics : diagnostics[j] = i
       /\ total_sales = Sum([i \in WellFormedScanned |->
                                FloatLiterals[Get(sales_data[i], "amount", "0")]],
                             WellFormedScanned)

\* C5: the update fails, writing no derived field, whenever the rate is
\* unparseable or negative or the jurisdiction is absent or empty (stated
\* for rows whose fields are all strings).
C5_InvalidInputRejected ==
    (Updated
       /\ \A k \in DOMAIN InputRow : InputRow[k] # None
       /\ \/ "Item Rate" \notin DOMAIN InputRow
          \/ float(InputRow["Item Rate"]).exc = "ValueError"
          \/ float(InputRow["Item Rate"]).v < 0
          \/ "Country Code" \notin DOMAIN InputRow
          \/ InputRow["Country Code"] = "")
    => /\ result = "None"
       /\ DOMAIN OutputRow \cap DerivedKeys = {}

\* The scenario of three rows: (2500, 1, INDIA), (1000, 3, INDIA), (500, 2, USA).
ScenarioRows ==
    << update_sales_record_with_tax(Row("2500", "1", "INDIA")).record,
       update_sales_record_with_tax(Row("1000", "3", "INDIA")).record,
       update_sales_record_with_tax(Row("500", "2", "USA")).record >>
ScenarioTotals ==
    /\ [i \in 1..3 |-> ScenarioRows[i]["Tax Amount"]]
          = << Money(250, 0), 0, 0 >>
    /\ [i \in 1..3 |-> ScenarioRows[i]["Total Amount"]]
          = << Money(2750, 0), Money(3000, 0), Money(1000, 0) >>
    /\ Sum([i \in 1..3 |-> ScenarioRows[i]["Item Amount"]], 1..3) = Money(6500, 0)
    /\ Sum([i \in 1..3 |-> ScenarioRows[i]["Tax Amount"]], 1..3) = Money(250, 0)
    /\ Sum([i \in 1..3 |-> ScenarioRows[i]["Total Amount"]], 1..3) = Money(6750, 0)

C7_UnknownCategoryDefault ==
    (prog = "main" /\ "standard" \in DOMAIN TAX_RATES)
    => /\ \A i \in WellFormedScanned :
              Get(sales_data[i], "category", "standard") \notin DOMAIN TAX_RATES
              => ~(\E j \in DOMAIN diagnostics : diagnostics[j] = i)
       /\ \A i \in DOMAIN processed_records :
              processed_records[i].category \notin DOMAIN TAX_RATES
              => processed_records[i].tax_rate = TAX_RATES["standard"]
       /\ report.printed
          => \A c \in DOMAIN report.rates :
                 c \notin DOMAIN TAX_RATES => report.rates[c] = TAX_RATES["standard"]

C9_InputFieldsKept ==
    Updated
    => /\ \A k \in DOMAIN InputRow : k \in DOMAIN OutputRow /\ OutputRow[k] = InputRow[k]
       /\ result = "record" => DOMAIN OutputRow = DOMAIN InputRow \cup DerivedKeys
       /\ result # "record" => DOMAIN OutputRow = DOMAIN InputRow

C9_Witness ==
    /\ Updated /\ result = "None"
    /\ DOMAIN InputRow = {"Item Name", "Item Rate", "Item Quantity"}
    /\ InputRow["Item Rate"] = "2500"
    /\ InputRow["Item Quantity"] = "2"
    /\ DOMAIN OutputRow = DOMAIN InputRow

\* C10: the category buckets of generate_report partition the processed
\* records: each record is counted in the bucket of its category, the counts
\* add up to the transaction count, and the buckets' sales and tax add up to
\* total_sales and total_tax.
C10_BucketsPartition ==
    (prog = "main" /\ report.printed)
    => LET buckets == report.categories
           members(c) == {i \in DOMAIN processed_records : processed_records[i].category = c}
       IN  /\ DOMAIN buckets = {processed_records[i].category : i \in DOMAIN processed_records}
           /\ \A c \in DOMAIN buckets :
                  /\ buckets[c].count = Cardinality(members(c))
                  /\ buckets[c].sales =
                        Sum([i \in members(c) |-> processed_records[i].amount], members(c))
                  /\ buckets[c].tax =
                        Sum([i \in members(c) |-> processed_records[i].tax_amount], members(c))
           /\ Sum([c \in DOMAIN buckets |-> buckets[c].count], DOMAIN buckets)
                 = report.transactions
           /\ report.transactions = Len(processed_records)
           /\ Sum([c \in DOMAIN buckets |-> buckets[c].sales], DOMAIN buckets) = total_sales
           /\ Sum([c \in DOMAIN buckets |-> buckets[c].tax], DOMAIN buckets) = total_tax

C10_Witness ==
    /\ prog = "main" /\ report.printed
    /\ Len(processed_records) = 3
    /\ DOMAIN report.categories = {"food", "standard"}
    /\ report.categories["standard"].count = 2
    /\ report.categories["food"].count = 1

=============================================================================
